---- MODULE Spec2Model ----
(***************************************************************************)
(* State-machine model of the OSINT search service:                        *)
(*   - SecurityManager (src/src/lib/security.ts): the admission governor   *)
(*     (checkRateLimit / waitForSlot / releaseSlot) and sanitizeQuery;     *)
(*   - the POST search handler (src/src/app/api/search/route.ts);          *)
(*   - OSINTEngine (src/unnamed/part_000): search, the attribute tasks,    *)
(*     deduplicateResults and analyzeResults.                              *)
(* Every await of the source is a step boundary: the code between two      *)
(* awaits runs as one action (JavaScript runs it without interruption).    *)
(***************************************************************************)
EXTENDS Integers, Sequences, FiniteSets, TLC

VARIABLES
    config,          \* SecurityManager.config: maxRequestsPerMinute, maxConcurrentRequests
    sm,              \* SecurityManager fields: requestCount, lastRequestTime, requestQueue, activeRequests
    clock,           \* Date.now(), in milliseconds
    ticks,           \* number of time advances so far (bounds the run)
    microtasks,      \* callers whose waitForSlot promise was resolved, in resolution order
    pc,              \* position of each caller / request handler
    nowAt,           \* the constant `now` captured at the start of each checkRateLimit call
    wakeAt,          \* due time of the setTimeout of each caller inside delay()
    waited,          \* whether the caller's current or last call went through waitForSlot
    pending,         \* callers with a checkRateLimit call in progress, in order of invocation
    recentGrants,    \* times of the checkRateLimit completions of the trailing 60 seconds
    browserGlobals,  \* whether `navigator` and `window` exist where the handler runs
    arrivals,        \* number of POST requests received so far
    req,             \* per handler: what the current or last POST request did
    searchArgs,      \* the argument of the latest osintEngine.search call of a handler, if any
    findings,        \* the flattened finding list handed to the correlation step
    correlated,      \* <<>> before the correlation step, <<its result>> after it
    uniqueResults,   \* the list deduplicateResults returned in the correlation step
    corrPc,          \* "input" before the correlation step, "done" after it
    query,           \* the argument of one OSINTEngine.search call
    searchPc,        \* position of that search call
    task,            \* per attribute: the attribute-task's position, the outcomes of its
                     \* adapter calls so far and the findings it has collected
    flattened,       \* the collection search has flattened from the task results
    completed,       \* the attributes whose tasks have completed, in completion order
    rawQuery,        \* the string handed to one sanitizeQuery call
    cleanQuery,      \* the string that call returned
    sanPc            \* "input" before the call, "done" after it

govVars == <<config, sm, clock, ticks, microtasks, pc, nowAt, wakeAt, waited, pending, recentGrants>>

postVars == <<browserGlobals, arrivals, req, searchArgs>>

corrVars == <<findings, uniqueResults, correlated, corrPc>>

searchVars == <<query, searchPc, task, flattened, completed>>

sanVars == <<rawQuery, cleanQuery, sanPc>>

vars == <<govVars, postVars, corrVars, searchVars, sanVars>>

----------------------------------------------------------------------------
(* Bounds of the model *)

NumCallers == 3
MaxR == 2
MaxC == 2
MaxTicks == 1
StartTime == 100000
MaxBodyLen == 1
MaxAttrs == 1
MaxRequests == 3
MaxFindings == 3
MaxFailures == 1
MaxStrLen == 3
MaxTailLen == 2

(* Program constants *)

WindowMs == 60000
BufferMs == 1000

Callers == 1..NumCallers

\* Date.now() advances by one of these amounts between two steps
TimeSteps == {500, WindowMs}

Max(a, b) == IF a >= b THEN a ELSE b

InSeq(x, q) == \E i \in 1..Len(q) : q[i] = x

----------------------------------------------------------------------------
(* SecurityManager: constructor *)

\* the constructor merges any partial configuration over the defaults
Configs == [maxRequestsPerMinute : 1..MaxR, maxConcurrentRequests : 1..MaxC]

NewSecurityManager ==
    [requestCount |-> 0, lastRequestTime |-> 0, requestQueue |-> <<>>, activeRequests |-> 0]

\* grant times that lie in the trailing window (t - 60000, t]
Trailing(g, t) == SelectSeq(g, LAMBDA x : x > t - WindowMs)

\* the locals of a call are gone once it has completed
Completed(f, p) == [f EXCEPT ![p] = 0]

----------------------------------------------------------------------------
(* SecurityManager.checkRateLimit *)

\* lines 36-43: the lazy reset of the counter at the start of a call
CleanUp(s, now) ==
    IF s.lastRequestTime < now - WindowMs
    THEN [s EXCEPT !.requestCount = 0, !.lastRequestTime = now]
    ELSE s

\* a completion that counts the permit and not the request
Grant_ActiveOnly(s) ==
    [s EXCEPT !.activeRequests = @ + 1]

\* lines 58-59: the two increments that complete a call
Grant(s) ==
    [s EXCEPT !.requestCount = @ + 1, !.activeRequests = @ + 1]

\* a wait of the time already elapsed in the window
WaitTime_Elapsed(s, now) == now - s.lastRequestTime

\* line 52: the wait computed from the `now` captured when the call began
WaitTime(s, now) == WindowMs - (now - s.lastRequestTime)

\* a rate check that rejects the call when the budget is exhausted
RateCheck_Rejects(p, s, now, pend) ==
    IF s.requestCount >= config.maxRequestsPerMinute
    THEN /\ sm' = s
         /\ pc' = [pc EXCEPT ![p] = "idle"]
         /\ nowAt' = Completed(nowAt, p)
         /\ pending' = SelectSeq(pend, LAMBDA q : q # p)
         /\ UNCHANGED <<wakeAt, recentGrants>>
    ELSE /\ sm' = Grant(s)
         /\ pc' = [pc EXCEPT ![p] = "acquired"]
         /\ nowAt' = Completed(nowAt, p)
         /\ pending' = SelectSeq(pend, LAMBDA q : q # p)
         /\ recentGrants' = Append(recentGrants, clock)
         /\ UNCHANGED wakeAt

\* lines 50-59, run by caller p on governor state s, pend being the calls in
\* progress: either the call goes into delay() or it completes
RateCheck(p, s, now, pend) ==
    IF s.requestCount >= config.maxRequestsPerMinute
    THEN /\ sm' = s
         /\ pc' = [pc EXCEPT ![p] = "delay"]
         /\ wakeAt' = [wakeAt EXCEPT ![p] = clock + WaitTime(s, now) + BufferMs]
         /\ nowAt' = [nowAt EXCEPT ![p] = now]
         /\ pending' = pend
         /\ UNCHANGED recentGrants
    ELSE /\ sm' = Grant(s)
         /\ pc' = [pc EXCEPT ![p] = "acquired"]
         /\ nowAt' = Completed(nowAt, p)
         /\ pending' = SelectSeq(pend, LAMBDA q : q # p)
         /\ recentGrants' = Append(recentGrants, clock)
         /\ UNCHANGED wakeAt

\* lines 65-69: waitForSlot pushes the resolver of a new promise
waitForSlot(s, p) == [s EXCEPT !.requestQueue = Append(@, p)]

\* lines 35-59 up to the first await: caller p invokes checkRateLimit
checkRateLimit(p) ==
    /\ pc[p] = "idle"
    /\ ticks < MaxTicks
    /\ LET s == CleanUp(sm, clock) IN
       IF s.activeRequests >= config.maxConcurrentRequests
       THEN /\ sm' = waitForSlot(s, p)
            /\ pc' = [pc EXCEPT ![p] = "waitSlot"]
            /\ nowAt' = [nowAt EXCEPT ![p] = clock]
            /\ waited' = [waited EXCEPT ![p] = TRUE]
            /\ pending' = Append(pending, p)
            /\ UNCHANGED <<wakeAt, recentGrants>>
       ELSE /\ RateCheck(p, s, clock, Append(pending, p))
            /\ waited' = [waited EXCEPT ![p] = FALSE]
    /\ UNCHANGED <<config, clock, ticks, microtasks>>

\* line 47 resumes: the caller at the head of the microtask queue continues
\* after `await this.waitForSlot()`, with the `now` of the start of its call
ResumeFromSlot(p) ==
    /\ pc[p] = "woken"
    /\ microtasks # <<>>
    /\ Head(microtasks) = p
    /\ microtasks' = Tail(microtasks)
    /\ RateCheck(p, sm, nowAt[p], pending)
    /\ UNCHANGED <<config, clock, ticks, waited>>
    /\ UNCHANGED <<postVars, corrVars, searchVars, sanVars>>

\* a resumption that records the time and keeps the counter
AfterDelay_KeepCount(s, t) == [s EXCEPT !.lastRequestTime = t]

\* lines 54-55: what the caller does when delay() resolves at time t
AfterDelay(s, t) == [s EXCEPT !.requestCount = 0, !.lastRequestTime = t]

\* lines 53-59 resume: the timer of caller p fires, at its due time or later;
\* timers fire in the order of their due times
DelayDone(p) ==
    /\ pc[p] = "delay"
    /\ \A q \in Callers : pc[q] = "delay" => wakeAt[p] <= wakeAt[q]
    /\ LET t == Max(clock, wakeAt[p]) IN
         /\ clock' = t
         /\ sm' = Grant(AfterDelay(sm, t))
         /\ recentGrants' = Append(Trailing(recentGrants, t), t)
    /\ ticks' = ticks + 1
    /\ pc' = [pc EXCEPT ![p] = "acquired"]
    /\ pending' = SelectSeq(pending, LAMBDA q : q # p)
    /\ nowAt' = Completed(nowAt, p)
    /\ wakeAt' = Completed(wakeAt, p)
    /\ UNCHANGED <<config, microtasks, waited>>
    /\ UNCHANGED <<postVars, corrVars, searchVars, sanVars>>

----------------------------------------------------------------------------
(* SecurityManager.releaseSlot *)

\* the decrement without the wake-up of lines 77-82
releaseSlot_NoWake(s) ==
    [s EXCEPT !.activeRequests = @ - 1]

\* a release that removes the waiter that joined the queue last
releaseSlot_WakeLast(s) ==
    [s EXCEPT !.activeRequests = @ - 1,
              !.requestQueue = IF Len(@) > 0 THEN SubSeq(@, 1, Len(@) - 1) ELSE @]

\* lines 74-83 on governor state s: one decrement, and the head of the queue
\* (if any) is removed and its resolver called
releaseSlot(s) ==
    [s EXCEPT !.activeRequests = @ - 1,
              !.requestQueue = IF Len(@) > 0 THEN Tail(@) ELSE @]

\* the resolvers called on the way from governor state s to s2, in order
WokenBy(s, s2) ==
    SubSeq(s.requestQueue, 1, Len(s.requestQueue) - Len(s2.requestQueue))

\* caller p moves to position `next` while the governor goes from sm to s2:
\* the continuations of the resolved promises are queued as microtasks
Release(p, s2, next) ==
    /\ sm' = s2
    /\ microtasks' = microtasks \o WokenBy(sm, s2)
    /\ pc' = [q \in Callers |->
                IF q = p THEN next
                ELSE IF InSeq(q, WokenBy(sm, s2)) THEN "woken"
                ELSE pc[q]]

----------------------------------------------------------------------------
(* Time *)

Tick(d) ==
    /\ ticks < MaxTicks
    /\ clock' = clock + d
    /\ ticks' = ticks + 1
    /\ recentGrants' = Trailing(recentGrants, clock + d)
    /\ UNCHANGED <<config, sm, microtasks, pc, nowAt, wakeAt, waited, pending>>
    /\ UNCHANGED <<postVars, corrVars, searchVars, sanVars>>

----------------------------------------------------------------------------
(* The governor with callers that acquire and release *)

NoTask == [pc |-> "none", calls |-> <<>>, results |-> <<>>]

\* no search call and no correlation step in progress
InitEngineIdle ==
    /\ findings = <<>>
    /\ uniqueResults = <<>>
    /\ correlated = <<>>
    /\ corrPc = "input"
    /\ query = [a \in {"name", "username", "email", "phone", "location"} |-> <<"undefined">>]
    /\ searchPc = "none"
    /\ task = [a \in {"name", "username", "email", "phone", "location"} |-> NoTask]
    /\ flattened = <<>>
    /\ completed = <<>>
    /\ rawQuery = <<>>
    /\ cleanQuery = <<>>
    /\ sanPc = "input"

NewRequest == [status |-> 0, acquires |-> 0, releases |-> 0, searches |-> 0, empty |-> FALSE]

InitCallers ==
    /\ sm = NewSecurityManager
    /\ clock = StartTime
    /\ ticks = 0
    /\ microtasks = <<>>
    /\ pc = [p \in Callers |-> "idle"]
    /\ nowAt = [p \in Callers |-> 0]
    /\ wakeAt = [p \in Callers |-> 0]
    /\ waited = [p \in Callers |-> FALSE]
    /\ pending = <<>>
    /\ recentGrants = <<>>
    /\ req = [p \in Callers |-> NewRequest]
    /\ searchArgs = <<>>
    /\ arrivals = 0

InitGov ==
    /\ config \in Configs
    /\ browserGlobals = FALSE
    /\ InitCallers
    /\ InitEngineIdle

\* a caller invokes checkRateLimit
Acquire(p) ==
    /\ checkRateLimit(p)
    /\ UNCHANGED <<postVars, corrVars, searchVars, sanVars>>

\* a caller that holds a permit releases it (one release per completed acquire)
ReleaseSlot(p) ==
    /\ pc[p] = "acquired"
    /\ Release(p, releaseSlot(sm), "idle")
    /\ UNCHANGED <<config, clock, ticks, nowAt, wakeAt, waited, pending, recentGrants>>
    /\ UNCHANGED <<postVars, corrVars, searchVars, sanVars>>

NextGov ==
    \/ \E p \in Callers : Acquire(p)
    \/ \E p \in Callers : ResumeFromSlot(p)
    \/ \E p \in Callers : DelayDone(p)
    \/ \E p \in Callers : ReleaseSlot(p)
    \/ \E d \in TimeSteps : Tick(d)

SpecGov == InitGov /\ [][NextGov]_vars

\* the event loop runs every queued continuation and every due timer, and
\* every caller that holds a permit releases it
FairGov ==
    /\ WF_vars(\E p \in Callers : ResumeFromSlot(p))
    /\ WF_vars(\E p \in Callers : DelayDone(p))
    /\ \A p \in Callers : WF_vars(ReleaseSlot(p))

FairSpecGov == SpecGov /\ FairGov

----------------------------------------------------------------------------
(* SecurityManager.sanitizeQuery; a string is a sequence of characters *)

Chars == {"<", ".", "/", " ", "a"}

HtmlChars == {"<", ">", "\"", "'", "&"}
PathChars == {"/", "\\"}
WhiteSpace == {" ", "\t", "\n"}
SliceLen == 200

Strings(n) == UNION {[1..k -> Chars] : k \in 0..n}

Remove(str, set) == SelectSeq(str, LAMBDA c : c \notin set)

\* line 189: every run of two or more dots becomes one dot
CollapseDots(str) ==
    LET tagged == [i \in 1..Len(str) |->
                      <<str[i], str[i] = "." /\ i > 1 /\ str[i - 1] = ".">>]
        kept == SelectSeq(tagged, LAMBDA x : ~x[2])
    IN [i \in 1..Len(kept) |-> kept[i][1]]

RECURSIVE TrimStart(_)
TrimStart(str) ==
    IF str # <<>> /\ Head(str) \in WhiteSpace THEN TrimStart(Tail(str)) ELSE str

RECURSIVE TrimEnd(_)
TrimEnd(str) ==
    IF str # <<>> /\ str[Len(str)] \in WhiteSpace
    THEN TrimEnd(SubSeq(str, 1, Len(str) - 1))
    ELSE str

Trim(str) == TrimEnd(TrimStart(str))

\* a slice that keeps everything after the first n characters too
Slice_Whole(str, n) == str

Slice(str, n) == SubSeq(str, 1, IF Len(str) < n THEN Len(str) ELSE n)

\* lines 185-193
sanitizeQuery(str) ==
    Slice(Trim(Remove(CollapseDots(Remove(str, HtmlChars)), PathChars)), SliceLen)

----------------------------------------------------------------------------
(* The POST handler of /api/search, on the exported securityManager *)

AttrNames == <<"name", "username", "email", "phone", "location">>
AttrSet == {AttrNames[i] : i \in 1..Len(AttrNames)}

Undefined == <<"undefined">>
\* a JSON value that is not a string, such as a number
NonString == <<"number">>
InvalidJson == <<"invalid json">>

\* JavaScript truthiness of an attribute value
Truthy(v) == v # Undefined /\ v # <<>>

BodyValues == {Undefined, NonString} \cup Strings(MaxBodyLen)

\* the JSON bodies a request may carry
RequestBodies ==
    UNION {{[a \in AttrSet |-> IF a \in S THEN f[a] ELSE Undefined] :
                f \in [S -> BodyValues \ {Undefined}]} :
            S \in {T \in SUBSET AttrSet : Cardinality(T) <= MaxAttrs}}

Urls == {"http://host/api/search", "http://host/api/search?next=/admin"}

\* lines 226-237: the URL matches one of the patterns
MatchesMaliciousPattern(url) == url = "http://host/api/search?next=/admin"

RECURSIVE SumLen(_, _)
SumLen(q, i) ==
    IF i = 0 THEN 0
    ELSE SumLen(q, i - 1)
         + (IF q[AttrNames[i]] = Undefined THEN 0
            ELSE Len(AttrNames[i]) + Len(q[AttrNames[i]]) + 6)

\* the length of JSON.stringify(sanitizedQuery): braces, and per defined
\* attribute its quoted key, a colon, its quoted value and a comma but the last
JsonLength(q) ==
    LET n == SumLen(q, Len(AttrNames)) IN IF n = 0 THEN 2 ELSE n + 1

\* lines 224-245
shouldBlockRequest(url, q) ==
    MatchesMaliciousPattern(url) \/ JsonLength(q) > 1000

\* lines 23-29
SanitizedQuery(body) ==
    [a \in AttrSet |-> IF Truthy(body[a]) THEN sanitizeQuery(body[a]) ELSE Undefined]

\* lines 250-263: the log entry reads navigator.userAgent and
\* window.location.href, a ReferenceError where these globals do not exist
logSecurityEventThrows == ~browserGlobals

\* lines 10-41 for one request: how the handler leaves its synchronous part
Validate(body, url) ==
    IF body = InvalidJson THEN "throw"
    ELSE IF \A a \in AttrSet : ~Truthy(body[a]) THEN "400"
    ELSE IF \E a \in AttrSet : body[a] = NonString THEN "throw"
    ELSE IF shouldBlockRequest(url, SanitizedQuery(body)) THEN "blocked"
    ELSE "search"

NoQuery == [a \in AttrSet |-> Undefined]

\* what the handler does with a request: the way it leaves its synchronous
\* part, whether the body set no attribute, and the query it hands to search
Handling(body, url) ==
    [v |-> Validate(body, url),
     empty |-> body # InvalidJson /\ (\A a \in AttrSet : body[a] = Undefined),
     query |-> IF Validate(body, url) = "search" THEN SanitizedQuery(body) ELSE NoQuery]

Handlings ==
    {Handling(body, url) : body \in RequestBodies \cup {InvalidJson}, url \in Urls}

RECURSIVE ReleaseTimes(_, _)
ReleaseTimes(s, n) == IF n = 0 THEN s ELSE releaseSlot(ReleaseTimes(s, n - 1))

\* line 8 up to the first await: a request arrives and calls checkRateLimit
PostReceive(p) ==
    /\ arrivals < MaxRequests
    /\ arrivals' = arrivals + 1
    /\ checkRateLimit(p)
    /\ req' = [req EXCEPT ![p] = [NewRequest EXCEPT !.acquires = 1]]
    /\ UNCHANGED <<browserGlobals, searchArgs>>
    /\ UNCHANGED <<corrVars, searchVars, sanVars>>

\* lines 10-41, and 62-71 when something throws: the body is read, validated
\* and sanitized, and the search is started or a response is returned
PostValidate(p) ==
    /\ pc[p] = "acquired"
    /\ \E h \in Handlings :
         LET throws == h.v = "throw" \/ (h.v = "blocked" /\ logSecurityEventThrows)
             n == IF throws THEN 1 ELSE 0
         IN /\ Release(p, ReleaseTimes(sm, n), IF h.v = "search" THEN "searching" ELSE "idle")
            /\ req' = [req EXCEPT ![p].status =
                                      IF h.v = "search" THEN 0
                                      ELSE IF throws THEN 500
                                      ELSE IF h.v = "400" THEN 400
                                      ELSE 403,
                                  ![p].releases = n,
                                  ![p].searches = IF h.v = "search" THEN 1 ELSE 0,
                                  ![p].empty = h.empty]
            /\ searchArgs' = IF h.v = "search" THEN <<h.query>> ELSE searchArgs
    /\ UNCHANGED <<config, clock, ticks, nowAt, wakeAt, waited, pending, recentGrants>>
    /\ UNCHANGED <<browserGlobals, arrivals>>
    /\ UNCHANGED <<corrVars, searchVars, sanVars>>

\* lines 41-60, and 62-71 when the log throws: the search has resolved, the slot
\* is released, the event is logged and the response returned
PostFinish(p) ==
    /\ pc[p] = "searching"
    /\ LET n == IF logSecurityEventThrows THEN 2 ELSE 1
       IN /\ Release(p, ReleaseTimes(sm, n), "idle")
          /\ req' = [req EXCEPT ![p].status = IF logSecurityEventThrows THEN 500 ELSE 200,
                                ![p].releases = n]
    /\ UNCHANGED <<config, clock, ticks, nowAt, wakeAt, waited, pending, recentGrants>>
    /\ UNCHANGED <<browserGlobals, arrivals, searchArgs>>
    /\ UNCHANGED <<corrVars, searchVars, sanVars>>

\* security.ts lines 267-273
ExportedConfig == [maxRequestsPerMinute |-> 30, maxConcurrentRequests |-> 2]

InitPost ==
    /\ config = ExportedConfig
    /\ browserGlobals \in BOOLEAN
    /\ InitCallers
    /\ InitEngineIdle

NextPost ==
    \/ \E p \in Callers : PostReceive(p)
    \/ \E p \in Callers : ResumeFromSlot(p)
    \/ \E p \in Callers : PostValidate(p)
    \/ \E p \in Callers : PostFinish(p)
    \/ \E d \in TimeSteps : Tick(d)

\* with at most MaxRequests requests the counter stays below the 30 of the
\* exported configuration, so no handler enters delay()
SpecPost == InitPost /\ [][NextPost]_vars

\* C3: once the handler has answered a request whose checkRateLimit call
\* completed, releaseSlot has been called exactly once for it
C3_ReleasedExactlyOnce ==
    \A p \in Callers : req[p].status # 0 => req[p].releases = 1

\* C6: a request whose query sets no attribute is answered with the
\* empty-query error (400) after zero checkRateLimit calls and zero searches
\* (hence zero adapter calls)
C6_EmptyQueryTouchesNothing ==
    \A p \in Callers :
        (req[p].status # 0 /\ req[p].empty)
            => req[p].status = 400 /\ req[p].acquires = 0 /\ req[p].searches = 0

\* C7: the query handed to osintEngine.search always has at least one
\* attribute that is neither absent nor the empty string
C7_SearchQueryNonEmpty ==
    \A i \in 1..Len(searchArgs) : \E a \in AttrSet : Truthy(searchArgs[i][a])

\* C27: the governor never reaches a state in which all the slots are taken
\* and no handler is left that would release one, so that every later
\* request would wait forever
C27_NoStrandedSlots ==
    ~(/\ sm.activeRequests >= config.maxConcurrentRequests
      /\ \A p \in Callers : pc[p] \in {"idle", "waitSlot"})

\* C28: activeRequests never goes below zero
C28_ActiveNeverNegative ==
    sm.activeRequests >= 0

----------------------------------------------------------------------------
(* OSINTEngine.deduplicateResults and OSINTEngine.analyzeResults *)

Confidences == {"low", "medium", "high"}

\* a deduplication that drops a result only when its URL repeats the URL of
\* the result just before it
deduplicateResults_Adjacent(results) ==
    LET F[i \in 0..Len(results)] ==
            IF i = 0 THEN <<>>
            ELSE IF i > 1 /\ results[i - 1].url = results[i].url THEN F[i - 1]
            ELSE Append(F[i - 1], results[i])
    IN F[Len(results)]

\* a deduplication that keeps the last occurrence of every URL
deduplicateResults_KeepLast(results) ==
    LET F[i \in 0..Len(results)] ==
            IF i = 0 THEN <<>>
            ELSE IF \E j \in (Len(results) - i + 2)..Len(results) :
                        results[j].url = results[Len(results) - i + 1].url
                 THEN F[i - 1]
                 ELSE <<results[Len(results) - i + 1]>> \o F[i - 1]
    IN F[Len(results)]

\* lines 419-428: the first occurrence of every URL, in input order
deduplicateResults(results) ==
    LET F[i \in 0..Len(results)] ==
            IF i = 0 THEN <<>>
            ELSE IF \E j \in 1..(i - 1) : results[j].url = results[i].url THEN F[i - 1]
            ELSE Append(F[i - 1], results[i])
    IN F[Len(results)]

\* lines 440-442: the filter predicate, for r against result
Matches(r, result) ==
    \/ (r.username = result.username /\ Truthy(r.username))
    \/ (r.email = result.email /\ Truthy(r.email))
    \/ (r.phone = result.phone /\ Truthy(r.phone))

\* a filter that leaves the finding itself out of the count
matchingSources_Others(results, i) ==
    Cardinality({j \in 1..Len(results) : j # i /\ Matches(results[j], results[i])})

\* lines 439-443: the number of results the filter keeps for results[i]
matchingSources(results, i) ==
    Cardinality({j \in 1..Len(results) : Matches(results[j], results[i])})

\* a re-scoring in which corroboration never gives more than medium
Rescore_MediumAtMost(results) ==
    [i \in 1..Len(results) |->
        [results[i] EXCEPT !.confidence =
            IF matchingSources(results, i) >= 1 THEN "medium" ELSE @]]

\* lines 435-452: the map that re-scores every result
Rescore(results) ==
    [i \in 1..Len(results) |->
        [results[i] EXCEPT !.confidence =
            IF matchingSources(results, i) > 1 THEN "high"
            ELSE IF matchingSources(results, i) = 1 THEN "medium"
            ELSE @]]

\* line 456
confidenceOrder(c) == IF c = "high" THEN 3 ELSE IF c = "medium" THEN 2 ELSE 1

Orderings(n) == {f \in [1..n -> 1..n] : \A i, j \in 1..n : i # j => f[i] # f[j]}

\* a sort that may leave the results in any order
SortOutcomes_AnyOrder(results) ==
    {[i \in 1..Len(results) |-> results[f[i]]] : f \in Orderings(Len(results))}

\* lines 455-463: the comparator orders two results of different tiers and
\* answers at random for two results of one tier, so the sort may leave the
\* results of one tier in any order
SortOutcomes(results) ==
    {[i \in 1..Len(results) |-> results[f[i]]] : f \in
        {g \in Orderings(Len(results)) :
            \A i, j \in 1..Len(results) :
                i < j => confidenceOrder(results[g[i]].confidence)
                            >= confidenceOrder(results[g[j]].confidence)}}

\* a correlation that returns the first two results only
analyzeResults_Truncated(results) ==
    {SubSeq(o, 1, IF Len(o) > 2 THEN 2 ELSE Len(o)) : o \in SortOutcomes(Rescore(results))}

\* lines 433-466: the lists analyzeResults may return
analyzeResults(results) == SortOutcomes(Rescore(results))

\* the identity attributes a finding may carry: none, a username (line 440),
\* an empty email (falsy, line 441) or a phone (line 442)
Identities ==
    {[username |-> Undefined, email |-> Undefined, phone |-> Undefined],
     [username |-> <<"a">>, email |-> Undefined, phone |-> Undefined],
     [username |-> Undefined, email |-> <<>>, phone |-> Undefined],
     [username |-> Undefined, email |-> Undefined, phone |-> <<"p">>]}

Finding(u, c, id) ==
    [url |-> u, confidence |-> c, username |-> id.username, email |-> id.email,
     phone |-> id.phone]

\* finding lists of length n; URLs are numbered in order of first appearance
FindingLists(n) ==
    {l \in [1..n -> {Finding(u, c, id) : u \in 1..n, c \in Confidences, id \in Identities}] :
        \A i \in 1..n : \A v \in 1..(l[i].url - 1) : \E j \in 1..(i - 1) : l[j].url = v}

InitCorr ==
    /\ findings \in UNION {FindingLists(n) : n \in 0..MaxFindings}
    /\ uniqueResults = <<>>
    /\ correlated = <<>>
    /\ corrPc = "input"
    /\ query = NoQuery
    /\ searchPc = "none"
    /\ task = [a \in AttrSet |-> NoTask]
    /\ flattened = <<>>
    /\ completed = <<>>
    /\ rawQuery = <<>>
    /\ cleanQuery = <<>>
    /\ sanPc = "input"
    /\ config = ExportedConfig
    /\ browserGlobals = FALSE
    /\ InitCallers

\* part_000 lines 73-78: search deduplicates the flattened list and analyzes it
Correlate ==
    /\ corrPc = "input"
    /\ uniqueResults' = deduplicateResults(findings)
    /\ \E out \in analyzeResults(deduplicateResults(findings)) : correlated' = <<out>>
    /\ corrPc' = "done"
    /\ UNCHANGED <<findings, govVars, postVars, searchVars, sanVars>>

NextCorr == Correlate

SpecCorr == InitCorr /\ [][NextCorr]_vars

\* the surviving findings that enter the re-scoring, and the final list
Surviving == uniqueResults
Output == correlated[1]

\* the result that carries the URL of the surviving finding i
ResultOf(i) ==
    CHOOSE r \in {Output[k] : k \in 1..Len(Output)} : r.url = Surviving[i].url

\* the number of other surviving findings that share a non-empty username,
\* email or phone with the surviving finding i
Corroborations(i) ==
    Cardinality({j \in 1..Len(Surviving) : j # i /\ Matches(Surviving[j], Surviving[i])})

\* C9: a surviving finding that no other surviving finding corroborates keeps
\* its reported confidence
C9_UncorroboratedKeepsConfidence ==
    corrPc = "done" =>
        \A i \in 1..Len(Surviving) :
            Corroborations(i) = 0 => ResultOf(i).confidence = Surviving[i].confidence

\* C10: a surviving finding that exactly one other surviving finding
\* corroborates ends at medium
C10_OneCorroborationGivesMedium ==
    corrPc = "done" =>
        \A i \in 1..Len(Surviving) :
            Corroborations(i) = 1 => ResultOf(i).confidence = "medium"

\* C11: a surviving finding that at least two other surviving findings
\* corroborate ends at high, whatever confidence it was reported with
C11_TwoCorroborationsGiveHigh ==
    corrPc = "done" =>
        \A i \in 1..Len(Surviving) :
            Corroborations(i) >= 2 => ResultOf(i).confidence = "high"

C11_Witness ==
    /\ corrPc = "done"
    /\ \E i \in 1..Len(Surviving) :
         /\ Corroborations(i) >= 2
         /\ Surviving[i].confidence = "low"
         /\ ResultOf(i).confidence = "high"

\* C12: the re-scored confidence of a surviving finding is never lower, in
\* the order low < medium < high, than its reported confidence
C12_ConfidenceNeverLowered ==
    corrPc = "done" =>
        \A i \in 1..Len(Surviving) :
            confidenceOrder(ResultOf(i).confidence)
                >= confidenceOrder(Surviving[i].confidence)

\* the position of the first finding with the URL u
FirstWithUrl(u) ==
    CHOOSE i \in 1..Len(findings) :
        findings[i].url = u /\ \A j \in 1..(i - 1) : findings[j].url # u

\* C13: the deduplicated list has exactly one entry per URL of the input,
\* that entry is the first finding with the URL, and the kept entries are in
\* input order
C13_FirstOccurrencePerUrl ==
    corrPc = "done" =>
        /\ \A i \in 1..Len(findings) :
             Cardinality({k \in 1..Len(uniqueResults) :
                            uniqueResults[k].url = findings[i].url}) = 1
        /\ \A k \in 1..Len(uniqueResults) :
             /\ \E i \in 1..Len(findings) : findings[i].url = uniqueResults[k].url
             /\ uniqueResults[k] = findings[FirstWithUrl(uniqueResults[k].url)]
        /\ \A k, m \in 1..Len(uniqueResults) :
             k < m => FirstWithUrl(uniqueResults[k].url) < FirstWithUrl(uniqueResults[m].url)

C13_Witness ==
    /\ corrPc = "done"
    /\ Len(uniqueResults) = 2
    /\ Len(findings) = 3
    /\ findings[1].url = findings[3].url
    /\ findings[1] # findings[3]
    /\ uniqueResults[1] = findings[1]

\* C22: deduplicating the deduplicated list changes nothing, and the
\* correlated list has exactly one entry for every URL of the input, also
\* when the input repeats URLs or is a list followed by itself
C22_DedupIdempotentOnePerUrl ==
    corrPc = "done" =>
        /\ deduplicateResults(uniqueResults) = uniqueResults
        /\ \A i \in 1..Len(findings) :
              Cardinality({k \in 1..Len(Output) : Output[k].url = findings[i].url}) = 1
        /\ \A k \in 1..Len(Output) :
              \E i \in 1..Len(findings) : findings[i].url = Output[k].url

\* a one-finding list followed by itself has been correlated to one result
C22_Witness ==
    /\ corrPc = "done"
    /\ Len(findings) = 2
    /\ findings[1] = findings[2]
    /\ Len(Output) = 1
    /\ Output[1].url = findings[1].url

\* C23: the correlated list has as many entries as the deduplicated list and
\* is a rearrangement of it in which only the confidence of an entry may differ
C23_OnlyConfidenceAndOrderChange ==
    corrPc = "done" =>
        /\ Len(Output) = Len(uniqueResults)
        /\ \A k, m \in 1..Len(Output) : k # m => Output[k].url # Output[m].url
        /\ \A k \in 1..Len(Output) : \E m \in 1..Len(uniqueResults) :
              [Output[k] EXCEPT !.confidence = uniqueResults[m].confidence] = uniqueResults[m]
        /\ \A m \in 1..Len(uniqueResults) : \E k \in 1..Len(Output) :
              [Output[k] EXCEPT !.confidence = uniqueResults[m].confidence] = uniqueResults[m]

\* three surviving findings came back reordered and one of them re-scored
C23_Witness ==
    /\ corrPc = "done"
    /\ Len(Output) = 3
    /\ Len(uniqueResults) = 3
    /\ Output[1].url # uniqueResults[1].url
    /\ \E k \in 1..3 : \E m \in 1..3 :
          /\ Output[k].url = uniqueResults[m].url
          /\ Output[k].confidence # uniqueResults[m].confidence

----------------------------------------------------------------------------
(* OSINTEngine.search and its attribute-tasks *)

\* lines 385-400: two terms for a one-word name, five for a name with a space
generateNameSearchTerms(name) ==
    IF Len(SelectSeq(name, LAMBDA c : c = " ")) + 1 > 1 THEN 5 ELSE 2

\* the adapter calls of the task of attribute a: the terms of a name (lines
\* 94-102), five platforms (116-137), three leak sites and the public scan
\* (150-167), the directories and the social media (187-192), four terms (209-221)
NumCalls(a, q) ==
    CASE a = "name" -> generateNameSearchTerms(q[a])
      [] a = "username" -> 5
      [] a = "email" -> 4
      [] a = "phone" -> 2
      [] a = "location" -> 4

\* lines 92-106, 148-171, 182-196, 207-225: one try around all the calls of
\* the task; lines 124-137: searchByUsername has one try per platform
TaskEndsOnThrow(a) == a # "username"

SearchQueries ==
    {q \in [AttrSet -> {Undefined, <<>>, <<"a">>, <<"a", " ", "a">>}] :
        \A a \in AttrSet \ {"name"} : q[a] # <<"a", " ", "a">>}

Failures ==
    Cardinality({<<a, i>> \in AttrSet \X (1..5) :
                    i <= Len(task[a].calls) /\ task[a].calls[i] = "throw"})

InitSearch ==
    /\ query \in SearchQueries
    /\ searchPc = "called"
    /\ task = [a \in AttrSet |-> NoTask]
    /\ flattened = <<>>
    /\ completed = <<>>
    /\ rawQuery = <<>>
    /\ cleanQuery = <<>>
    /\ sanPc = "input"
    /\ findings = <<>>
    /\ uniqueResults = <<>>
    /\ correlated = <<>>
    /\ corrPc = "input"
    /\ config = ExportedConfig
    /\ browserGlobals = FALSE
    /\ InitCallers

\* a fan-out that starts a task for every attribute the query defines, the
\* empty string included
SearchFanOut_Defined ==
    /\ searchPc = "called"
    /\ searchPc' = "running"
    /\ task' = [a \in AttrSet |->
                  IF query[a] # Undefined THEN [NoTask EXCEPT !.pc = "running"] ELSE NoTask]
    /\ UNCHANGED <<query, flattened, completed, govVars, postVars, corrVars, sanVars>>

\* lines 39-65: after the initial delay, one task per truthy attribute
SearchFanOut ==
    /\ searchPc = "called"
    /\ searchPc' = "running"
    /\ task' = [a \in AttrSet |->
                  IF Truthy(query[a]) THEN [NoTask EXCEPT !.pc = "running"] ELSE NoTask]
    /\ UNCHANGED <<query, flattened, completed, govVars, postVars, corrVars, sanVars>>

\* one adapter call of the task of attribute a returns its finding or throws
AdapterCall(a) ==
    /\ searchPc = "running"
    /\ task[a].pc = "running"
    /\ \E outcome \in {"ok", "throw"} :
         LET i == Len(task[a].calls) + 1 IN
         /\ outcome = "throw" => Failures < MaxFailures
         /\ task' = [task EXCEPT
                ![a].calls = Append(@, outcome),
                ![a].results = IF outcome = "ok" THEN Append(@, <<a, i>>) ELSE @,
                ![a].pc = IF (outcome = "throw" /\ TaskEndsOnThrow(a)) \/ i = NumCalls(a, query)
                          THEN "done" ELSE "running"]
         /\ completed' = IF (outcome = "throw" /\ TaskEndsOnThrow(a)) \/ i = NumCalls(a, query)
                         THEN Append(completed, a) ELSE completed
    /\ UNCHANGED <<query, searchPc, flattened, govVars, postVars, corrVars, sanVars>>

\* a concatenation in the reverse of the order the tasks were pushed
RECURSIVE Flatten_Reversed(_, _)
Flatten_Reversed(tk, i) ==
    IF i = 0 THEN <<>> ELSE tk[AttrNames[i]].results \o Flatten_Reversed(tk, i - 1)

RECURSIVE Flatten(_, _)
Flatten(tk, i) ==
    IF i = 0 THEN <<>> ELSE Flatten(tk, i - 1) \o tk[AttrNames[i]].results

\* a search that flattens what there is without waiting for its tasks
SearchCollect_NoWait ==
    /\ searchPc = "running"
    /\ flattened' = Flatten(task, Len(AttrNames))
    /\ searchPc' = "resolved"
    /\ UNCHANGED <<query, task, completed, govVars, postVars, corrVars, sanVars>>

\* lines 65-78: Promise.all has resolved; the task results are concatenated in
\* the order the tasks were pushed
SearchCollect ==
    /\ searchPc = "running"
    /\ \A a \in AttrSet : task[a].pc # "running"
    /\ flattened' = Flatten(task, Len(AttrNames))
    /\ searchPc' = "resolved"
    /\ UNCHANGED <<query, task, completed, govVars, postVars, corrVars, sanVars>>

NextSearch ==
    \/ SearchFanOut
    \/ \E a \in AttrSet : AdapterCall(a)
    \/ SearchCollect

SpecSearch == InitSearch /\ [][NextSearch]_vars

\* C8: when search has flattened the task results it has not rejected, and
\* every adapter call of the query that did not throw has its finding in the
\* collection
C8_OnlyFailedCallsAreMissing ==
    searchPc # "rejected" /\
    (searchPc = "resolved" =>
        \A a \in AttrSet : Truthy(query[a]) =>
            \A i \in 1..NumCalls(a, query) :
                (i <= Len(task[a].calls) /\ task[a].calls[i] = "throw")
                    \/ InSeq(<<a, i>>, flattened))

----------------------------------------------------------------------------
(* SecurityManager.sanitizeQuery applied to one string *)

Pad(n) == [i \in 1..n |-> "a"]

\* short strings, and strings that reach past the 200 characters of the slice
SanitizerInputs ==
    Strings(MaxStrLen) \cup {Pad(SliceLen) \o s : s \in Strings(MaxTailLen)}

InitSanitize ==
    /\ rawQuery \in SanitizerInputs
    /\ cleanQuery = <<>>
    /\ sanPc = "input"
    /\ config = ExportedConfig
    /\ browserGlobals = FALSE
    /\ InitCallers
    /\ findings = <<>>
    /\ uniqueResults = <<>>
    /\ correlated = <<>>
    /\ corrPc = "input"
    /\ query = NoQuery
    /\ searchPc = "none"
    /\ task = [a \in AttrSet |-> NoTask]
    /\ flattened = <<>>
    /\ completed = <<>>

Sanitize ==
    /\ sanPc = "input"
    /\ cleanQuery' = sanitizeQuery(rawQuery)
    /\ sanPc' = "done"
    /\ UNCHANGED <<rawQuery, govVars, postVars, corrVars, searchVars>>

NextSanitize == Sanitize

SpecSanitize == InitSanitize /\ [][NextSanitize]_vars

\* C25: the sanitized string has no two dots in a row
C25_NoRepeatedDots ==
    sanPc = "done" =>
        \A i \in 1..(Len(cleanQuery) - 1) :
            ~(cleanQuery[i] = "." /\ cleanQuery[i + 1] = ".")

\* C26: the sanitized string has none of the characters < > " ' & / \ and
\* is at most 200 characters long
C26_NoForbiddenCharsAtMost200 ==
    sanPc = "done" =>
        /\ \A i \in 1..Len(cleanQuery) :
              cleanQuery[i] \notin {"<", ">", "\"", "'", "&", "/", "\\"}
        /\ Len(cleanQuery) <= 200

\* a string of more than 200 characters with a "<" in it has been cut to 200
C26_Witness ==
    /\ sanPc = "done"
    /\ Len(rawQuery) > 201
    /\ InSeq("<", rawQuery)
    /\ Len(cleanQuery) = 200

\* C21: once search has fanned out, the attributes that have a task are
\* exactly the attributes the query gives a non-empty value
C21_OneTaskPerPresentAttribute ==
    searchPc \in {"running", "resolved"} =>
        {a \in AttrSet : task[a].pc # "none"}
            = {a \in AttrSet : query[a] # Undefined /\ query[a] # <<>>}

\* a query with a present, an empty and an absent attribute has fanned out
C21_Witness ==
    /\ searchPc = "running"
    /\ \E a \in AttrSet : query[a] = <<>> /\ task[a].pc = "none"
    /\ \E a \in AttrSet : query[a] = Undefined /\ task[a].pc = "none"
    /\ \E a \in AttrSet : query[a] = <<"a">> /\ task[a].pc = "running"

\* the place of attribute a in the order name, username, email, phone, location
AttrIndex(a) == CHOOSE i \in 1..Len(AttrNames) : AttrNames[i] = a

\* C30: the flattened collection lists the findings in the fixed order of
\* the attributes and, within an attribute, in the order of the calls,
\* whatever the order in which the tasks completed
C30_FlattenedInFixedOrder ==
    searchPc = "resolved" =>
        /\ \A i, j \in 1..Len(flattened) :
              i < j => \/ AttrIndex(flattened[i][1]) < AttrIndex(flattened[j][1])
                       \/ /\ flattened[i][1] = flattened[j][1]
                          /\ flattened[i][2] < flattened[j][2]
        /\ \A a \in AttrSet : \A k \in 1..Len(task[a].results) :
              InSeq(task[a].results[k], flattened)

\* a search has resolved whose later-pushed task completed first, both with findings
C30_Witness ==
    /\ searchPc = "resolved"
    /\ \E m, n \in 1..Len(completed) :
          /\ m < n
          /\ AttrIndex(completed[m]) > AttrIndex(completed[n])
          /\ task[completed[m]].results # <<>>
          /\ task[completed[n]].results # <<>>

\* the adapter calls made so far by the tasks of the search
AdapterCallsMade ==
    LET N[i \in 0..Len(AttrNames)] ==
            IF i = 0 THEN 0 ELSE N[i - 1] + Len(task[AttrNames[i]].calls)
    IN N[Len(AttrNames)]

\* C19: every adapter call is gated by the governor: no more adapter calls
\* have been made than checkRateLimit calls have completed
C19_AdapterCallsGated ==
    AdapterCallsMade <= sm.requestCount

\* C20: when search has resolved, every attribute-task it started is done
\* and the flattened list holds all the findings of all the tasks
C20_ResolvesAfterAllTasks ==
    searchPc = "resolved" =>
        \A a \in AttrSet :
            /\ task[a].pc = IF Truthy(query[a]) THEN "done" ELSE "none"
            /\ \A i \in 1..Len(task[a].results) : InSeq(task[a].results[i], flattened)

\* a search of two attributes has resolved with the findings of both tasks
C20_Witness ==
    /\ searchPc = "resolved"
    /\ Cardinality({a \in AttrSet : task[a].pc = "done"}) >= 2
    /\ \A a \in AttrSet : task[a].pc = "done" => Len(task[a].results) >= 1
    /\ Len(flattened) >= 4

----------------------------------------------------------------------------
\* C1: the number of permits acquired and not yet released never exceeds
\* maxConcurrentRequests
C1_ActiveWithinLimit ==
    sm.activeRequests <= config.maxConcurrentRequests

\* C2: no more than maxRequestsPerMinute calls of checkRateLimit complete
\* within any trailing 60-second interval
C2_RateWithinLimit ==
    Len(recentGrants) <= config.maxRequestsPerMinute

\* C4: under fair scheduling, with every permit released, every caller in the
\* wait queue is eventually woken and its checkRateLimit call completes
C4_QueuedEventuallyGranted ==
    \A p \in Callers : (pc[p] = "waitSlot") ~> (pc[p] = "acquired")

\* a caller that went through the wait queue holds its permit
C4_Witness ==
    \E p \in Callers : pc[p] = "acquired" /\ waited[p]

\* C5: permits are granted in arrival order: a call completes only when no
\* call invoked before it is still in progress
C5_GrantedInArrivalOrder ==
    [][\A p \in Callers :
          (pc[p] # "acquired" /\ pc'[p] = "acquired")
              => \A i \in 1..Len(pending) :
                    pending[i] = p \/ InSeq(p, SubSeq(pending, 1, i))]_vars

\* C15: a caller that finds the budget exhausted is granted no earlier than
\* 60 seconds plus the 1-second buffer after the window start recorded when
\* it found so: its timer is set no earlier than that, and it is granted only
\* when the timer is due
C15_NotGrantedBeforeWindowEnd ==
    [][\A p \in Callers :
          /\ (pc[p] # "delay" /\ pc'[p] = "delay")
                => wakeAt'[p] >= sm'.lastRequestTime + WindowMs + BufferMs
          /\ (pc[p] = "delay" /\ pc'[p] = "delay") => wakeAt'[p] = wakeAt[p]
          /\ (pc[p] = "delay" /\ pc'[p] # "delay")
                => pc'[p] = "acquired" /\ clock' >= wakeAt[p]]_vars

\* a caller that waited in the slot queue, then found the budget exhausted,
\* has been granted when its timer fired
C15_Witness ==
    \E p \in Callers :
        /\ pc[p] = "acquired"
        /\ waited[p]
        /\ sm.lastRequestTime = clock
        /\ clock >= StartTime + WindowMs + BufferMs

\* a step completes a checkRateLimit call
Granting == sm'.activeRequests = sm.activeRequests + 1

\* a step sets the counter to zero (and, if it grants, then increments it)
CounterReset ==
    IF Granting THEN sm'.requestCount # sm.requestCount + 1
    ELSE sm'.requestCount < sm.requestCount

\* C16: the counter is reset only when more than 60 seconds have elapsed
\* since the last recorded request
C16_ResetOnlyAfterWindow ==
    [][CounterReset => clock' - sm.lastRequestTime > WindowMs]_vars

\* C17: a completed checkRateLimit call leaves the counter one above the
\* value it had just before the increment (its old value, or zero after a
\* reset), and a releaseSlot never changes the counter
C17_BudgetConsumedOnAttempt ==
    [][/\ Granting =>
            \/ sm'.requestCount = sm.requestCount + 1
            \/ sm'.requestCount = 1
       /\ sm'.activeRequests < sm.activeRequests
            => sm'.requestCount = sm.requestCount]_vars

\* two calls completed and both permits were released
C17_Witness ==
    sm.requestCount = 2 /\ sm.activeRequests = 0 /\ \A p \in Callers : pc[p] = "idle"

\* the position of caller p among the calls in progress, in arrival order
Arrival(p) == CHOOSE i \in 1..Len(pending) : pending[i] = p

\* C18: a releaseSlot takes one from activeRequests, wakes the waiter that
\* has waited longest if there is one and nobody otherwise, and leaves
\* requestCount and lastRequestTime alone; nobody is woken in any other step
C18_ReleaseWakesLongestWaiter ==
    [][/\ sm'.activeRequests < sm.activeRequests =>
            /\ sm'.activeRequests = sm.activeRequests - 1
            /\ sm'.requestCount = sm.requestCount
            /\ sm'.lastRequestTime = sm.lastRequestTime
            /\ Cardinality({p \in Callers : pc[p] = "waitSlot" /\ pc'[p] # "waitSlot"})
                  = IF \E p \in Callers : pc[p] = "waitSlot" THEN 1 ELSE 0
            /\ \A p \in Callers : (pc[p] = "waitSlot" /\ pc'[p] # "waitSlot") =>
                  /\ pc'[p] = "woken"
                  /\ microtasks' = Append(microtasks, p)
                  /\ ~InSeq(p, sm'.requestQueue)
                  /\ \A q \in Callers : pc[q] = "waitSlot" => Arrival(p) <= Arrival(q)
            /\ (\A p \in Callers : pc[p] # "waitSlot") => microtasks' = microtasks
       /\ \A p \in Callers :
            (pc[p] = "waitSlot" /\ pc'[p] # "waitSlot")
                => sm'.activeRequests = sm.activeRequests - 1]_vars

\* the earlier of two waiters has been woken, the later still waits
C18_Witness ==
    \E p, q \in Callers :
        /\ pc[p] = "woken"
        /\ pc[q] = "waitSlot"
        /\ Arrival(p) < Arrival(q)

\* C24: a checkRateLimit call never fails: a call in progress stays in
\* progress (waiting for a slot, woken, or in delay) until it completes
C24_CallNeverFails ==
    [][\A p \in Callers :
          /\ pc'[p] \in {"idle", "waitSlot", "woken", "delay", "acquired"}
          /\ pc[p] \in {"waitSlot", "woken", "delay"}
                => pc'[p] \in {"waitSlot", "woken", "delay", "acquired"}
          /\ (pc[p] = "idle" /\ InSeq(p, pending'))
                => pc'[p] \in {"waitSlot", "delay"}]_vars

\* a call that found the budget exhausted at once has completed after its delay
C24_Witness ==
    \E p \in Callers :
        /\ pc[p] = "acquired"
        /\ ~waited[p]
        /\ sm.lastRequestTime = clock
        /\ clock >= StartTime + WindowMs + BufferMs

\* C29: requestCount is never negative and never above maxRequestsPerMinute
C29_CounterWithinBudget ==
    sm.requestCount >= 0 /\ sm.requestCount <= config.maxRequestsPerMinute

\* the budget of two is used up and a further caller is in delay
C29_Witness ==
    /\ config.maxRequestsPerMinute = 2
    /\ sm.requestCount = 2
    /\ \E p \in Callers : pc[p] = "delay"

====
